---- MODULE Spec2Model ----
(***************************************************************************)
(* Model of the order-signing script (sign_order.py) and of the router     *)
(* transaction-to-interaction script (transaction_to_interaction.py).      *)
(*                                                                         *)
(* Python values are records [t, s, n, b]: t is the Python type, s the     *)
(* characters of a str (one-character strings), n the number of an int     *)
(* (for a float: its value in tenths), b the value of a bool.  A float     *)
(* that is inf or nan carries that word in s.  A dict is the sequence of   *)
(* its items [k, v] in insertion order, keys distinct.  An optional value  *)
(* (a document, a payload, a result) is <<>> or the one-element sequence   *)
(* holding it.  call_params is the argument of the last call of            *)
(* normalize_order_params, raised the exception that ended the run.        *)
(***************************************************************************)
EXTENDS Integers, Sequences, FiniteSets, TLC

VARIABLES pc, argv, call_params, order_params, chain_id, settlement, raised, typed_data,
          signed_order, stdout, exit_code,
          cpc, router_stdout, router_call_data, conv_stdout

vars == <<pc, argv, call_params, order_params, chain_id, settlement, raised, typed_data,
          signed_order, stdout, exit_code,
          cpc, router_stdout, router_call_data, conv_stdout>>

signVars == <<pc, argv, call_params, order_params, chain_id, settlement, raised, typed_data,
              signed_order, stdout, exit_code>>

convVars == <<cpc, router_stdout, router_call_data, conv_stdout>>

(***************************************************************************)
(* Python values                                                           *)
(***************************************************************************)
PyNone == [t |-> "none", s |-> <<>>, n |-> 0, b |-> FALSE]
PyStr(chars) == [t |-> "str", s |-> chars, n |-> 0, b |-> FALSE]
PyIntV(i) == [t |-> "int", s |-> <<>>, n |-> i, b |-> FALSE]
PyBool(x) == [t |-> "bool", s |-> <<>>, n |-> 0, b |-> x]
PyFloat(tenths) == [t |-> "float", s |-> <<>>, n |-> tenths, b |-> FALSE]
PyInf == [t |-> "float", s |-> <<"i", "n", "f">>, n |-> 0, b |-> FALSE]
PyNaN == [t |-> "float", s |-> <<"n", "a", "n">>, n |-> 0, b |-> FALSE]
PySig == [t |-> "sig", s |-> <<"0", "x">>, n |-> 0, b |-> FALSE]

Item(key, value) == [k |-> key, v |-> value]

Keys(d) == {d[i].k : i \in 1..Len(d)}

HasKey(d, key) == \E i \in 1..Len(d) : d[i].k = key

Get(d, key) == d[CHOOSE i \in 1..Len(d) : d[i].k = key].v

GetOr(d, key, default) == IF HasKey(d, key) THEN Get(d, key) ELSE default

Pop(d, key) == SelectSeq(d, LAMBDA it : it.k # key)

\* d[key] = value: an existing key keeps its position, a new key is appended
Put(d, key, value) ==
    IF HasKey(d, key)
    THEN [i \in 1..Len(d) |-> IF d[i].k = key THEN Item(key, value) ELSE d[i]]
    ELSE Append(d, Item(key, value))

(***************************************************************************)
(* Python built-ins used by the scripts                                    *)
(***************************************************************************)
Digits == <<"0", "1", "2", "3", "4", "5", "6", "7", "8", "9">>

IsDigit(c) == \E i \in 1..10 : Digits[i] = c

DigitValue(c) == (CHOOSE i \in 1..10 : Digits[i] = c) - 1

IsSpace(c) == c \in {" ", "\n", "\t"}

RECURSIVE LStrip(_)
LStrip(s) == IF Len(s) > 0 /\ IsSpace(Head(s)) THEN LStrip(Tail(s)) ELSE s

RECURSIVE RStrip(_)
RStrip(s) ==
    IF Len(s) > 0 /\ IsSpace(s[Len(s)]) THEN RStrip(SubSeq(s, 1, Len(s) - 1)) ELSE s

Strip(s) == RStrip(LStrip(s))

\* the digits part of an integer literal: digits, single underscores between them
IsDigitsBody(s) ==
    /\ Len(s) > 0
    /\ IsDigit(s[1])
    /\ IsDigit(s[Len(s)])
    /\ \A i \in 1..Len(s) : IsDigit(s[i]) \/ s[i] = "_"
    /\ \A i \in 1..(Len(s) - 1) : ~(s[i] = "_" /\ s[i + 1] = "_")

RECURSIVE DigitsValue(_)
DigitsValue(s) ==
    IF Len(s) = 0 THEN 0
    ELSE IF s[Len(s)] = "_" THEN DigitsValue(SubSeq(s, 1, Len(s) - 1))
    ELSE 10 * DigitsValue(SubSeq(s, 1, Len(s) - 1)) + DigitValue(s[Len(s)])

IntResult(i) == [exc |-> "", n |-> i]
IntRaise(e) == [exc |-> e, n |-> 0]

\* int(<str>)
IntOfStr(chars) ==
    LET s == Strip(chars)
        signed == Len(s) > 0 /\ s[1] \in {"+", "-"}
        body == IF signed THEN Tail(s) ELSE s
    IN  IF ~IsDigitsBody(body) THEN IntRaise("ValueError")
        ELSE IF signed /\ s[1] = "-" THEN IntResult(0 - DigitsValue(body))
        ELSE IntResult(DigitsValue(body))

\* int(<float>): truncation toward zero; inf and nan raise
IntOfFloat(value) ==
    IF value.s = <<"i", "n", "f">> THEN IntRaise("OverflowError")
    ELSE IF value.s = <<"n", "a", "n">> THEN IntRaise("ValueError")
    ELSE IF value.n >= 0 THEN IntResult(value.n \div 10)
    ELSE IntResult(0 - ((0 - value.n) \div 10))

\* int(value)
PyInt(value) ==
    CASE value.t = "str" -> IntOfStr(value.s)
      [] value.t = "int" -> IntResult(value.n)
      [] value.t = "bool" -> IntResult(IF value.b THEN 1 ELSE 0)
      [] value.t = "float" -> IntOfFloat(value)
      [] OTHER -> IntRaise("TypeError")

\* bool(value), the truth value of `value` in a condition
Truthy(value) ==
    CASE value.t = "str" -> Len(value.s) > 0
      [] value.t = "int" -> value.n # 0
      [] value.t = "bool" -> value.b
      [] value.t = "float" -> value.s # <<>> \/ value.n # 0
      [] OTHER -> FALSE

\* str(<int>)
RECURSIVE StrOfNat(_)
StrOfNat(i) ==
    IF i < 10 THEN <<Digits[i + 1]>> ELSE StrOfNat(i \div 10) \o <<Digits[(i % 10) + 1]>>

StrOfInt(i) == IF i < 0 THEN <<"-">> \o StrOfNat(0 - i) ELSE StrOfNat(i)

Upper == <<"A", "B", "C", "D", "E", "F", "G", "H", "I", "J", "K", "L", "M",
           "N", "O", "P", "Q", "R", "S", "T", "U", "V", "W", "X", "Y", "Z">>
Lower == <<"a", "b", "c", "d", "e", "f", "g", "h", "i", "j", "k", "l", "m",
           "n", "o", "p", "q", "r", "s", "t", "u", "v", "w", "x", "y", "z">>

LowerChar(c) ==
    IF \E i \in 1..26 : Upper[i] = c THEN Lower[CHOOSE i \in 1..26 : Upper[i] = c] ELSE c

\* <str>.lower()
StrLower(s) == [i \in 1..Len(s) |-> LowerChar(s[i])]

(***************************************************************************)
(* sign_order.py: normalize_order_params                                   *)
(***************************************************************************)
NullText == <<"n", "u", "l", "l">>

\* value == "null" or value is None
IsNull(value) == value.t = "none" \/ (value.t = "str" /\ value.s = NullText)

required_numeric == <<"sellAmount", "buyAmount", "validTo">>

IsRequired(key) == \E i \in 1..Len(required_numeric) : required_numeric[i] = key

numeric_fields == {"sellAmount", "buyAmount", "feeAmount", "validTo", "chainId"}

\* one pass of the loop body: the value stored under the key, or the exception
Stored(value) == [exc |-> "", field |-> "", why |-> "", v |-> value]
Raise(e, key, reason) == [exc |-> e, field |-> key, why |-> reason, v |-> PyNone]
NoError == [exc |-> "", field |-> "", why |-> "", fn |-> ""]

\* faulty variant: a null optional field is stored as 0 instead of None
NormalizeNull_zero(key) ==
    IF IsRequired(key) THEN Raise("ValueError", key, "null or missing")
    ELSE Stored(PyIntV(0))

NormalizeNull(key) ==
    IF IsRequired(key) THEN Raise("ValueError", key, "null or missing") ELSE Stored(PyNone)

NormalizeNumeric(key, value) ==
    LET r == IF Truthy(value) THEN PyInt(value) ELSE IntResult(0)
    IN  IF r.exc = "" THEN Stored(PyIntV(r.n))
        ELSE IF r.exc \in {"ValueError", "TypeError"}
        THEN IF IsRequired(key) THEN Raise("ValueError", key, "invalid value")
             ELSE Stored(PyIntV(0))
        ELSE Raise(r.exc, "", "")

TrueWords == {<<"t", "r", "u", "e">>, <<"1">>, <<"y", "e", "s">>}

\* faulty variant: the string is compared without lower()
NormalizeBool_cased(value) ==
    IF value.t = "bool" THEN value
    ELSE IF value.t = "str" THEN PyBool(value.s \in TrueWords)
    ELSE PyBool(Truthy(value))

NormalizeBool(value) ==
    IF value.t = "bool" THEN value
    ELSE IF value.t = "str" THEN PyBool(StrLower(value.s) \in TrueWords)
    ELSE PyBool(Truthy(value))

NormalizeItem(key, value) ==
    IF IsNull(value) THEN NormalizeNull(key)
    ELSE IF key \in numeric_fields THEN NormalizeNumeric(key, value)
    ELSE IF key = "partiallyFillable" THEN Stored(NormalizeBool(value))
    ELSE Stored(value)

\* the closing validation: the first required field that is absent or None
ValidateRequired(normalized) ==
    LET bad == {i \in 1..Len(required_numeric) :
                    \/ ~HasKey(normalized, required_numeric[i])
                    \/ Get(normalized, required_numeric[i]).t = "none"}
    IN  IF bad = {} THEN [exc |-> "", field |-> "", why |-> "", value |-> normalized]
        ELSE LET first == CHOOSE i \in bad : \A j \in bad : i <= j
             IN  [exc |-> "ValueError", field |-> required_numeric[first],
                  why |-> "missing", value |-> <<>>]

RECURSIVE NormalizeItems(_, _, _)
NormalizeItems(params, i, normalized) ==
    IF i > Len(params) THEN ValidateRequired(normalized)
    ELSE LET r == NormalizeItem(params[i].k, params[i].v)
         IN  IF r.exc # ""
             THEN [exc |-> r.exc, field |-> r.field, why |-> r.why, value |-> <<>>]
             ELSE NormalizeItems(params, i + 1, Put(normalized, params[i].k, r.v))

normalize_order_params(params) == NormalizeItems(params, 1, <<>>)

(***************************************************************************)
(* sign_order.py: create_order_typed_data, sign_order                      *)
(***************************************************************************)
Field(name, type) == [name |-> name, type |-> type]

types ==
    [EIP712Domain |-> << Field("name", "string"),
                         Field("version", "string"),
                         Field("chainId", "uint256"),
                         Field("verifyingContract", "address") >>,
     Order |-> << Field("sellToken", "address"),
                  Field("buyToken", "address"),
                  Field("receiver", "address"),
                  Field("sellAmount", "uint256"),
                  Field("buyAmount", "uint256"),
                  Field("validTo", "uint32"),
                  Field("appData", "bytes32"),
                  Field("feeAmount", "uint256"),
                  Field("kind", "string"),
                  Field("partiallyFillable", "bool"),
                  Field("sellTokenBalance", "string"),
                  Field("buyTokenBalance", "string") >>]

\* faulty variant: the Order schema is derived from the keys of the order
OrderTypes_dynamic(params) ==
    [types EXCEPT !.Order = [i \in 1..Len(params) |-> Field(params[i].k, "string")]]

OrderTypes(params) == types

create_order_typed_data(chain, verifying_contract, params) ==
    [types |-> OrderTypes(params),
     primaryType |-> "Order",
     domain |-> [name |-> "Gnosis Protocol",
                 version |-> "v2",
                 chainId |-> chain,
                 verifyingContract |-> verifying_contract],
     message |-> params]

\* str(value) of an amount
PyStrOf(value) ==
    CASE value.t = "int" -> StrOfInt(value.n)
      [] value.t = "bool" -> IF value.b THEN <<"T", "r", "u", "e">>
                                        ELSE <<"F", "a", "l", "s", "e">>
      [] OTHER -> value.s

u256_fields == {"sellAmount", "buyAmount", "feeAmount"}

\* faulty variant: the amounts are left as native numbers
PayloadValue_native(key, value) ==
    IF key = "validTo" /\ value.t # "none" THEN PyIntV(PyInt(value).n) ELSE value

\* the value the payload carries under `key`
PayloadValue(key, value) ==
    IF key \in u256_fields /\ value.t # "none" THEN PyStr(PyStrOf(value))
    ELSE IF key = "validTo" /\ value.t # "none" THEN PyIntV(PyInt(value).n)
    ELSE value

PayloadFields(params) ==
    [i \in 1..Len(params) |-> Item(params[i].k, PayloadValue(params[i].k, params[i].v))]

\* Account.from_key accepts a well-formed 32-byte key only
PrivateKeys == {"0xkey1", "0xkey2"}
ValidKey(private_key) == private_key \in PrivateKeys

\* account.address
Address(private_key) == PyStr(<<"0", "x", "address of", private_key>>)

\* encode_ok: whether the library's encode_typed_data accepts the document
sign_order(private_key, chain, settlement_contract, params, encode_ok) ==
    LET doc == create_order_typed_data(chain, settlement_contract, params)
        intErr == \E i \in 1..Len(params) :
                      /\ params[i].k = "validTo"
                      /\ params[i].v.t # "none"
                      /\ PyInt(params[i].v).exc # ""
        payload == Put(Put(Put(PayloadFields(params),
                               "signingScheme", PyStr(<<"eip712">>)),
                           "signature", PySig),
                       "from", Address(private_key))
    IN  IF ~encode_ok THEN [exc |-> "EncodeError", doc |-> <<doc>>, payload |-> <<>>]
        ELSE IF ~ValidKey(private_key)
        THEN [exc |-> "KeyError", doc |-> <<doc>>, payload |-> <<>>]
        ELSE IF intErr THEN [exc |-> "ValueError", doc |-> <<doc>>, payload |-> <<>>]
        ELSE [exc |-> "", doc |-> <<doc>>, payload |-> <<payload>>]

(***************************************************************************)
(* Inputs: JSON objects for the order argument.  An object is the base     *)
(* order with at most MaxOdd (MaxOddMain) of its keys replaced by another  *)
(* raw value or removed/added, its keys in one of two insertion orders.    *)
(***************************************************************************)
MaxOdd == 2
MaxOddMain == 1
MaxArgs == 4

Absent == [t |-> "absent", s |-> <<>>, n |-> 0, b |-> FALSE]

AllKeys == <<"sellAmount", "buyAmount", "validTo", "feeAmount", "chainId",
             "partiallyFillable", "kind", "settlement">>

KeySet == {AllKeys[i] : i \in 1..Len(AllKeys)}

Reverse(s) == [i \in 1..Len(s) |-> s[Len(s) + 1 - i]]

KeyOrders == {AllKeys, Reverse(AllKeys)}

Base(key) ==
    CASE key = "sellAmount" -> PyStr(<<"1", "0", "0", "0">>)
      [] key = "buyAmount" -> PyStr(<<"5", "0", "0">>)
      [] key = "validTo" -> PyStr(<<"1", "2", "3">>)
      [] key = "feeAmount" -> PyStr(<<"0">>)
      [] key = "partiallyFillable" -> PyBool(FALSE)
      [] key = "kind" -> PyStr(<<"s", "e", "l", "l">>)
      [] OTHER -> Absent

NumRaw ==
    {Absent, PyNone, PyStr(NullText), PyStr(<<>>), PyStr(<<"1", "2">>),
     PyStr(<<"-", "5">>), PyStr(<<"a", "b", "c">>), PyStr(<<" ", "7", "\n">>),
     PyIntV(0), PyIntV(7), PyBool(TRUE), PyFloat(15), PyInf, PyNaN}

BoolRaw ==
    {Absent, PyNone, PyStr(NullText), PyStr(<<"Y", "E", "S">>),
     PyStr(<<"T", "r", "u", "e">>), PyStr(<<"1">>), PyStr(<<"0">>),
     PyStr(<<"n", "o">>), PyStr(<<>>), PyBool(TRUE), PyBool(FALSE),
     PyIntV(0), PyIntV(2), PyFloat(0), PyFloat(5)}

DefaultSettlement == PyStr(<<"0x610178dA211FEF7D417bC0e6FeD39F05609AD788">>)
OtherSettlement == PyStr(<<"0x9008D19f58AAbD9eD0D60971565AA8510560ab41">>)
DefaultChainId == PyIntV(31337)

Alt(key) ==
    CASE key \in numeric_fields -> NumRaw
      [] key = "partiallyFillable" -> BoolRaw
      [] key = "kind" -> {Absent, PyNone, PyStr(NullText), PyStr(<<"b", "u", "y">>)}
      [] OTHER -> {PyNone, OtherSettlement}

RawVals == UNION {Alt(AllKeys[i]) : i \in 1..Len(AllKeys)}

\* the dict with keys in `order` and the values of `f`, absent keys left out
ObjectOf(order, f) ==
    SelectSeq([i \in 1..Len(order) |-> Item(order[i], f[order[i]])],
              LAMBDA it : it.v.t # "absent")

Variations(m) ==
    UNION {{[k \in KeySet |-> IF k \in S THEN g[k] ELSE Base(k)] :
              g \in {h \in [S -> RawVals] : \A k \in S : h[k] \in Alt(k)}} :
           S \in {T \in SUBSET KeySet : Cardinality(T) <= m}}

Objects(m) == {ObjectOf(order, f) : order \in KeyOrders, f \in Variations(m)}

\* a command-line argument: its text, and what json.loads gives for it
\* (<<>>: the text is no JSON object)
Arg(text) == [a |-> text, json |-> <<>>]
JsonArg(obj) == [a |-> "order_json", json |-> <<obj>>]

KeyArgs == {Arg("0xkey1"), Arg("not a key")}

ArgLists ==
    {<<Arg("sign_order.py")>>}
    \cup {<<Arg("sign_order.py"), k>> : k \in KeyArgs}
    \cup {<<Arg("sign_order.py"), k, j>> :
            k \in KeyArgs, j \in {JsonArg(o) : o \in Objects(MaxOddMain)} \cup {Arg("{")}}
    \cup {<<Arg("sign_order.py"), k, JsonArg(o)>> \o [i \in 1..n |-> Arg("extra")] :
            k \in KeyArgs, o \in Objects(0), n \in 1..(MaxArgs - 3)}

(***************************************************************************)
(* sign_order.py: the entry point, one action per statement group          *)
(***************************************************************************)
Usage == [kind |-> "usage", body |-> <<>>]
Json(obj) == [kind |-> "json", body |-> obj]

\* faulty variant: extra arguments are tolerated
ArgsOk_atleast(args) == Len(args) >= 3

ArgsOk(args) == Len(args) = 3

InitSign ==
    /\ call_params = <<>>
    /\ chain_id = PyNone
    /\ settlement = PyNone
    /\ raised = NoError
    /\ typed_data = <<>>
    /\ signed_order = <<>>
    /\ stdout = <<>>
    /\ exit_code = -1

InitConvIdle ==
    /\ cpc = "idle"
    /\ router_stdout = <<>>
    /\ router_call_data = <<>>
    /\ conv_stdout = <<>>

Init ==
    /\ pc = "start"
    /\ argv \in ArgLists
    /\ order_params = <<>>
    /\ InitSign
    /\ InitConvIdle

\* if len(sys.argv) != 3: print usage, sys.exit(1)
CheckArgs ==
    /\ pc = "start"
    /\ IF ArgsOk(argv)
       THEN /\ pc' = "load"
            /\ UNCHANGED <<stdout, exit_code>>
       ELSE /\ pc' = "exited"
            /\ stdout' = Append(stdout, Usage)
            /\ exit_code' = 1
    /\ UNCHANGED <<argv, call_params, order_params, chain_id, settlement, raised, typed_data,
                   signed_order, convVars>>

\* json.loads, the two defaults, the two pops
LoadOrder ==
    /\ pc = "load"
    /\ IF argv[3].json = <<>>
       THEN /\ pc' = "exited"
            /\ raised' = [exc |-> "JSONDecodeError", field |-> "", why |-> "",
                          fn |-> "json.loads"]
            /\ exit_code' = 1
            /\ UNCHANGED <<order_params, chain_id, settlement>>
       ELSE /\ pc' = "normalize"
            /\ chain_id' = GetOr(argv[3].json[1], "chainId", DefaultChainId)
            /\ settlement' = GetOr(argv[3].json[1], "settlement", DefaultSettlement)
            /\ order_params' = Pop(Pop(argv[3].json[1], "chainId"), "settlement")
            /\ UNCHANGED <<raised, exit_code>>
    /\ UNCHANGED <<argv, call_params, typed_data, signed_order, stdout, convVars>>

\* order_params = normalize_order_params(order_params)
Normalized(here, next) ==
    /\ pc = here
    /\ call_params' = order_params
    /\ LET r == normalize_order_params(order_params)
       IN  IF r.exc # ""
           THEN /\ pc' = "exited"
                /\ raised' = [exc |-> r.exc, field |-> r.field, why |-> r.why,
                               fn |-> "normalize_order_params"]
                /\ exit_code' = 1
                /\ UNCHANGED order_params
           ELSE /\ pc' = next
                /\ order_params' = r.value
                /\ UNCHANGED <<raised, exit_code>>
    /\ UNCHANGED <<argv, chain_id, settlement, typed_data, signed_order, stdout,
                   convVars>>

\* signed_order = sign_order(private_key, chain_id, settlement, order_params)
Signed(here, next, private_key, chain, contract, encode_ok) ==
    /\ pc = here
    /\ LET r == sign_order(private_key, chain, contract, order_params, encode_ok)
       IN  /\ typed_data' = r.doc
           /\ chain_id' = chain
           /\ settlement' = contract
           /\ IF r.exc # ""
              THEN /\ pc' = "exited"
                   /\ raised' = [exc |-> r.exc, field |-> "", why |-> "",
                                  fn |-> "sign_order"]
                   /\ exit_code' = 1
                   /\ UNCHANGED signed_order
              ELSE /\ pc' = next
                   /\ signed_order' = r.payload
                   /\ UNCHANGED <<raised, exit_code>>
    /\ UNCHANGED <<argv, call_params, order_params, stdout, convVars>>

MainNormalize == Normalized("normalize", "sign")

MainSign ==
    \E encode_ok \in BOOLEAN :
        Signed("sign", "print", argv[2].a, chain_id, settlement, encode_ok)

\* print(json.dumps(signed_order, indent=2))
PrintOrder ==
    /\ pc = "print"
    /\ stdout' = Append(stdout, Json(signed_order[1]))
    /\ exit_code' = 0
    /\ pc' = "exited"
    /\ UNCHANGED <<argv, call_params, order_params, chain_id, settlement, raised, typed_data,
                   signed_order, convVars>>

Next == CheckArgs \/ LoadOrder \/ MainNormalize \/ MainSign \/ PrintOrder

Spec == Init /\ [][Next]_vars

(***************************************************************************)
(* The two functions called directly, on every object of Objects(MaxOdd)   *)
(* (drawn as in Variations and ObjectOf)                                    *)
(***************************************************************************)
ChainIds == {DefaultChainId, PyIntV(1)}

InitCall ==
    /\ pc = "call normalize"
    /\ argv = <<>>
    /\ InitSign
    /\ \E order \in KeyOrders, S \in {T \in SUBSET KeySet : Cardinality(T) <= MaxOdd} :
          \E g \in [S -> RawVals] :
              /\ \A k \in S : g[k] \in Alt(k)
              /\ order_params = ObjectOf(order, [k \in KeySet |-> IF k \in S THEN g[k]
                                                                         ELSE Base(k)])
    /\ InitConvIdle

CallNormalize == Normalized("call normalize", "call sign")

CallSignOrder ==
    \E private_key \in {"0xkey1", "not a key"}, chain \in ChainIds, encode_ok \in BOOLEAN :
        Signed("call sign", "returned", private_key, chain, DefaultSettlement, encode_ok)

NextCall == CallNormalize \/ CallSignOrder

SpecCall == InitCall /\ [][NextCall]_vars

(***************************************************************************)
(* transaction_to_interaction.py                                           *)
(***************************************************************************)
permit2_address == <<"0x000000000022D473030F116dDEE9F6B43aC78BA3">>
router_address == <<"0x66a9893cc07d91d95644aedd05d03f95e1dba8af">>

\* permit2_contract.encode_abi("approve", ...): the calldata of the approval
permit2_call_data == <<"0x", "approve(sell_token, router_address, sell_amount, deadline)">>

start_pattern == <<"C", "a", "l", "l", "d", "a", "t", "a", ":", " ">>
end_pattern == <<"V", "a", "l", "u", "e", ":", " ">>
EndShift == 11

\* whether `pattern` occurs in `text` at 0-based position `at`
MatchesAt(pattern, text, at) ==
    /\ at + Len(pattern) <= Len(text)
    /\ \A i \in 1..Len(pattern) : text[at + i] = pattern[i]

\* re.search(pattern, text) for a literal pattern: the span of the leftmost
\* match, <<>> when there is none (None)
Search(pattern, text) ==
    LET hits == {at \in 0..Len(text) : MatchesAt(pattern, text, at)}
    IN  IF hits = {} THEN <<>>
        ELSE LET at == CHOOSE h \in hits : \A g \in hits : h <= g
             IN  <<at, at + Len(pattern)>>

\* text[from:to] with from >= 0
Slice(text, from, to) ==
    LET stop == IF to < 0 THEN (IF to + Len(text) < 0 THEN 0 ELSE to + Len(text))
                ELSE IF to > Len(text) THEN Len(text) ELSE to
    IN  IF from >= stop THEN <<>> ELSE SubSeq(text, from + 1, stop)

Returned(value) == [exc |-> "", value |-> value]
Failed(e) == [exc |-> e, value |-> <<>>]

\* faulty variant: a missing marker gives empty calldata instead of an error
extract_calldata_default(input_string) ==
    LET start_match == Search(start_pattern, input_string)
        end_match == Search(end_pattern, input_string)
    IN  IF start_match = <<>> \/ end_match = <<>> THEN Returned(<<>>)
        ELSE Returned(Slice(input_string, start_match[2], end_match[1] - EndShift))

extract_calldata(input_string) ==
    LET start_match == Search(start_pattern, input_string)
        end_match == Search(end_pattern, input_string)
    IN  IF start_match = <<>> THEN Failed("AttributeError")
        ELSE IF end_match = <<>> THEN Failed("AttributeError")
        ELSE Returned(Slice(input_string, start_match[2], end_match[1] - EndShift))

Interaction(target, call_data) == [target |-> target, callData |-> call_data, value |-> <<"0">>]

\* faulty variant: the swap is placed before the approval
Interactions_swapped(approval, swap) == <<swap, approval>>

Interactions(approval, swap) == <<approval, swap>>

(***************************************************************************)
(* Inputs: what the router binary writes to its standard output            *)
(***************************************************************************)
MaxPad == 12

Pad(n) == [i \in 1..n |-> IF i = 1 THEN "\n" ELSE " "]

RouterOutputs ==
    {pre \o cd \o body \o Pad(n) \o val \o post :
        pre \in {<<>>, <<"B", "e", "s", "t", "\n">>, end_pattern \o <<"1", "\n">>},
        cd \in {<<>>, start_pattern},
        body \in {<<>>, <<"0", "x", "a", "b">>, <<"0", "x", "a", "b", "c", "1", "2", "3">>},
        n \in 0..MaxPad,
        val \in {<<>>, end_pattern},
        post \in {<<>>, <<"0", "\n">>}}

InitSignIdle ==
    /\ pc = "idle"
    /\ argv = <<>>
    /\ order_params = <<>>
    /\ InitSign

InitConv ==
    /\ cpc = "quote"
    /\ router_stdout = <<>>
    /\ router_call_data = <<>>
    /\ conv_stdout = <<>>
    /\ InitSignIdle

\* result = subprocess.run([ROUTER_BINARY, "quote", ...], capture_output=True, text=True)
RunRouter ==
    /\ cpc = "quote"
    /\ \/ /\ cpc' = "raised FileNotFoundError"
          /\ UNCHANGED router_stdout
       \/ /\ router_stdout' \in {<<out>> : out \in RouterOutputs}
          /\ cpc' = "extract"
    /\ UNCHANGED <<router_call_data, conv_stdout, signVars>>

\* router_call_data = extract_calldata(result.stdout)
ExtractCalldata ==
    /\ cpc = "extract"
    /\ LET r == extract_calldata(router_stdout[1])
       IN  IF r.exc # ""
           THEN /\ cpc' = "raised AttributeError"
                /\ UNCHANGED router_call_data
           ELSE /\ cpc' = "dump"
                /\ router_call_data' = <<r.value>>
    /\ UNCHANGED <<router_stdout, conv_stdout, signVars>>

\* j = json.dumps([...]); print(j)
PrintInteractions ==
    /\ cpc = "dump"
    /\ conv_stdout' = Append(conv_stdout,
                             Interactions(Interaction(permit2_address, permit2_call_data),
                                          Interaction(router_address, router_call_data[1])))
    /\ cpc' = "exited"
    /\ UNCHANGED <<router_stdout, router_call_data, signVars>>

NextConv == RunRouter \/ ExtractCalldata \/ PrintInteractions

SpecConv == InitConv /\ [][NextConv]_vars

(***************************************************************************)
(* Properties of normalize_order_params, checked under SpecCall            *)
(***************************************************************************)
NormalizeReturned == pc = "call sign"

NormalizeRaised == pc = "exited" /\ raised.fn = "normalize_order_params"

\* the raw value the caller gave under `key`
RawOf(key) == GetOr(call_params, key, Absent)

ParsesNonNegative(v) ==
    CASE v.t = "int" -> v.n >= 0
      [] v.t = "bool" -> TRUE
      [] v.t = "float" -> v.s = <<>> /\ v.n >= 0
      [] v.t = "str" -> v.s # NullText /\ IntOfStr(v.s).exc = "" /\ IntOfStr(v.s).n >= 0
      [] OTHER -> FALSE

NonNumericText(v) == v.t = "str" /\ v.s # NullText /\ IntOfStr(v.s).exc # ""

\* C1: normalization returns only if every required field (sellAmount,
\* buyAmount, validTo) has a raw value that parses as a non-negative integer;
\* a missing, null, "null", empty or otherwise non-numeric one is never
\* accepted and turned into 0.
C1_RequiredFieldsParse ==
    NormalizeReturned =>
        \A i \in 1..Len(required_numeric) : ParsesNonNegative(RawOf(required_numeric[i]))

\* a raw value that is absent, null, "null" or not convertible to an integer
BadRequiredValue(v) == v = Absent \/ IsNull(v) \/ PyInt(v).exc # ""

\* C2: a call of normalize_order_params either returns a mapping that holds
\* sellAmount, buyAmount and validTo as non-null integers, or raises an error
\* that names a required field which is absent, null, "null" or invalid in the
\* input.
C2_ReturnsAllOrNamesField ==
    (NormalizeReturned \/ NormalizeRaised) =>
        \/ /\ NormalizeReturned
           /\ \A i \in 1..Len(required_numeric) :
                  /\ HasKey(order_params, required_numeric[i])
                  /\ Get(order_params, required_numeric[i]).t = "int"
        \/ /\ NormalizeRaised
           /\ IsRequired(raised.field)
           /\ BadRequiredValue(RawOf(raised.field))

OptionalNumeric == {"feeAmount", "chainId"}

\* C3 as stated: for feeAmount and chainId an absent key, null, "null" and a
\* non-numeric string all give the normalized value 0.
C3_MissingOptionalIsZero ==
    NormalizeReturned =>
        \A k \in OptionalNumeric :
            (RawOf(k) = Absent \/ IsNull(RawOf(k)) \/ NonNumericText(RawOf(k)))
                => (HasKey(order_params, k) /\ Get(order_params, k) = PyIntV(0))

\* C3 amended: for feeAmount and chainId a non-numeric string (the empty string
\* included) gives the integer 0, null and "null" both give null, and an
\* absent key stays absent.
C3_OptionalZeroNullAbsent ==
    NormalizeReturned =>
        \A k \in OptionalNumeric :
            /\ NonNumericText(RawOf(k))
                   => (HasKey(order_params, k) /\ Get(order_params, k) = PyIntV(0))
            /\ IsNull(RawOf(k))
                   => (HasKey(order_params, k) /\ Get(order_params, k) = PyNone)
            /\ RawOf(k) = Absent => ~HasKey(order_params, k)

C3_Witness ==
    /\ NormalizeReturned
    /\ RawOf("feeAmount") = PyStr(NullText)
    /\ RawOf("chainId") = PyStr(<<"a", "b", "c">>)

\* c is d or the upper-case form of d
SameLetter(c, d) == c = d \/ \E i \in 1..26 : Lower[i] = d /\ Upper[i] = c

\* s equals "true", "1" or "yes", ignoring case
IsTrueWord(s) ==
    \E w \in TrueWords : Len(w) = Len(s) /\ \A i \in 1..Len(s) : SameLetter(s[i], w[i])

\* C4 as stated: for a boolean, string or number under partiallyFillable the
\* result is the boolean itself, true for a string equal to "true", "1" or
\* "yes" ignoring case, and false for every other value.
C4_BoolOrTrueWordElseFalse ==
    (NormalizeReturned /\ RawOf("partiallyFillable").t \in {"bool", "str", "int", "float"}) =>
        Get(order_params, "partiallyFillable") =
            IF RawOf("partiallyFillable").t = "bool" THEN RawOf("partiallyFillable")
            ELSE PyBool(/\ RawOf("partiallyFillable").t = "str"
                        /\ IsTrueWord(RawOf("partiallyFillable").s))

\* C4 amended: a boolean gives itself; the string "null" gives null; any other
\* string gives true exactly when it equals "true", "1" or "yes" ignoring case;
\* a number gives true exactly when it is not zero.
C4_BoolWordOrTruthiness ==
    (NormalizeReturned /\ RawOf("partiallyFillable").t \in {"bool", "str", "int", "float"}) =>
        Get(order_params, "partiallyFillable") =
            CASE RawOf("partiallyFillable").t = "bool" -> RawOf("partiallyFillable")
              [] RawOf("partiallyFillable").t = "str" ->
                     IF RawOf("partiallyFillable").s = NullText THEN PyNone
                     ELSE PyBool(IsTrueWord(RawOf("partiallyFillable").s))
              [] OTHER -> PyBool(\/ RawOf("partiallyFillable").n # 0
                                 \/ RawOf("partiallyFillable").s # <<>>)

C4_Witness ==
    /\ NormalizeReturned
    /\ RawOf("partiallyFillable") = PyStr(<<"Y", "E", "S">>)
    /\ Get(order_params, "partiallyFillable") = PyBool(TRUE)

(***************************************************************************)
(* Properties of sign_order and create_order_typed_data, under SpecCall    *)
(***************************************************************************)
SignReturned == pc = "returned" /\ signed_order # <<>>

\* s is the decimal numeral of i
IsDecimalOf(s, i) ==
    /\ Len(s) > 0
    /\ \A j \in 1..Len(s) : IsDigit(s[j]) \/ (j = 1 /\ s[j] = "-" /\ i < 0)
    /\ IntOfStr(s) = IntResult(i)

Stamps == {"signingScheme", "signature", "from"}

PayloadStamped(payload) ==
    /\ Keys(payload) = Keys(order_params) \cup Stamps
    /\ Get(payload, "signingScheme") = PyStr(<<"eip712">>)
    /\ Get(payload, "signature") = PySig
    /\ Get(payload, "from").t = "str"

\* C5 as stated: the payload carries every amount key of the order as the
\* decimal string of the normalized integer, never as a number or null;
\* validTo as the normalized integer; every other field unchanged; plus
\* signingScheme, signature and from.
C5_AmountsAreDecimalStrings ==
    SignReturned =>
        /\ PayloadStamped(signed_order[1])
        /\ \A i \in 1..Len(order_params) :
             LET k == order_params[i].k
                 v == order_params[i].v
                 p == Get(signed_order[1], k)
             IN  IF k \in u256_fields
                 THEN p.t = "str" /\ v.t = "int" /\ IsDecimalOf(p.s, v.n)
                 ELSE p = v /\ (k = "validTo" => p.t = "int")

\* C5 amended: every amount key whose normalized value is not null is carried
\* as the decimal string of that integer, and an amount that is null stays
\* null; validTo is the normalized integer; every other field is unchanged;
\* signingScheme, signature and from are added.
C5_NonNullAmountsAreDecimalStrings ==
    SignReturned =>
        /\ PayloadStamped(signed_order[1])
        /\ \A i \in 1..Len(order_params) :
             LET k == order_params[i].k
                 v == order_params[i].v
                 p == Get(signed_order[1], k)
             IN  IF k \in u256_fields /\ v.t # "none"
                 THEN p.t = "str" /\ v.t = "int" /\ IsDecimalOf(p.s, v.n)
                 ELSE p = v /\ (k = "validTo" => p.t = "int")

C5_Witness ==
    /\ SignReturned
    /\ Get(order_params, "sellAmount") = PyIntV(1000)
    /\ Get(signed_order[1], "sellAmount") = PyStr(<<"1", "0", "0", "0">>)
    /\ HasKey(order_params, "feeAmount")
    /\ Get(order_params, "feeAmount") = PyNone

FieldNames(fields) == [i \in 1..Len(fields) |-> fields[i].name]

\* C10: whatever the chain id, the contract and the order mapping, the
\* document's types are the fixed schema (EIP712Domain with name, version,
\* chainId, verifyingContract; Order with the twelve fields in their order),
\* its domain is named "Gnosis Protocol", version "v2", with the given chain id
\* and contract, its primaryType is "Order" and its message is the order.
C10_FixedSchema ==
    typed_data # <<>> =>
        /\ DOMAIN typed_data[1].types = {"EIP712Domain", "Order"}
        /\ FieldNames(typed_data[1].types.EIP712Domain)
               = <<"name", "version", "chainId", "verifyingContract">>
        /\ FieldNames(typed_data[1].types.Order)
               = <<"sellToken", "buyToken", "receiver", "sellAmount", "buyAmount",
                   "validTo", "appData", "feeAmount", "kind", "partiallyFillable",
                   "sellTokenBalance", "buyTokenBalance">>
        /\ typed_data[1].primaryType = "Order"
        /\ typed_data[1].domain.name = "Gnosis Protocol"
        /\ typed_data[1].domain.version = "v2"
        /\ typed_data[1].domain.chainId = chain_id
        /\ typed_data[1].domain.verifyingContract = settlement
        /\ typed_data[1].message = order_params

C10_Witness ==
    /\ typed_data # <<>>
    /\ ~HasKey(order_params, "feeAmount")
    /\ HasKey(order_params, "chainId")
    /\ chain_id = PyIntV(1)

(***************************************************************************)
(* Properties of the signing entry point, checked under Spec               *)
(***************************************************************************)
PayloadPrints == {i \in 1..Len(stdout) : stdout[i].kind = "json"}

\* C8: the payload is printed at most once, and only by a run that had exactly
\* two arguments, whose normalization returned and whose signing returned; a
\* run with another argument count prints the usage message and exits with
\* status 1 before the order is read; a run that raised has printed nothing.
C8_PrintOnlyAfterSuccess ==
    /\ Cardinality(PayloadPrints) <= 1
    /\ PayloadPrints # {} =>
          /\ Len(argv) = 3
          /\ pc = "exited"
          /\ raised.exc = ""
          /\ call_params = Pop(Pop(argv[3].json[1], "chainId"), "settlement")
          /\ \A i \in 1..Len(required_numeric) :
                 /\ HasKey(order_params, required_numeric[i])
                 /\ Get(order_params, required_numeric[i]).t = "int"
          /\ typed_data # <<>>
          /\ signed_order # <<>>
          /\ stdout = <<Json(signed_order[1])>>
          /\ exit_code = 0
    /\ (Len(argv) # 3 /\ pc # "start") =>
          /\ pc = "exited"
          /\ stdout = <<Usage>>
          /\ exit_code = 1
          /\ order_params = <<>>
          /\ call_params = <<>>
          /\ typed_data = <<>>
    /\ raised.exc # "" => (stdout = <<>> /\ signed_order = <<>> /\ pc = "exited")

C8_Witness ==
    /\ PayloadPrints # {}
    /\ pc = "exited"
    /\ HasKey(argv[3].json[1], "chainId")

(***************************************************************************)
(* Properties of the conversion run, checked under SpecConv                *)
(***************************************************************************)
HasText(pattern, text) ==
    \E i \in 1..Len(text) : \E j \in i..Len(text) : SubSeq(text, i, j) = pattern

\* the position right after the first "Calldata: "
AfterCalldata(text) ==
    CHOOSE e \in 1..Len(text) :
        /\ e >= Len(start_pattern)
        /\ SubSeq(text, e - Len(start_pattern) + 1, e) = start_pattern
        /\ ~HasText(start_pattern, SubSeq(text, 1, e - 1))

\* the 0-based position of the next "Value: " at or after position `from`
NextValue(text, from) ==
    CHOOSE at \in from..Len(text) :
        /\ SubSeq(text, at + 1, at + Len(end_pattern)) = end_pattern
        /\ ~HasText(end_pattern, SubSeq(text, from + 1, at + Len(end_pattern) - 1))

\* C6: for a text with "Calldata: " and a later "Value: ", the result is the
\* piece of the text that starts right after the first "Calldata: " and ends 11
\* characters before the next "Value: " after it (nothing, when fewer than 11
\* characters lie between them).
C6_PieceBetweenMarkers ==
    (/\ cpc = "dump"
     /\ HasText(start_pattern, router_stdout[1])
     /\ HasText(end_pattern, SubSeq(router_stdout[1], AfterCalldata(router_stdout[1]) + 1,
                                    Len(router_stdout[1])))) =>
        LET text == router_stdout[1]
            from == AfterCalldata(text)
            to == NextValue(text, from) - 11
        IN  router_call_data[1] = IF to <= from THEN <<>> ELSE SubSeq(text, from + 1, to)

\* C7: when the router output lacks "Calldata: " or lacks "Value: ", the
\* extraction ends in an error, no calldata is returned (not even an empty one)
\* and the run prints no interaction list.
C7_MissingMarkerFails ==
    (/\ router_stdout # <<>>
     /\ cpc # "extract"
     /\ \/ ~HasText(start_pattern, router_stdout[1])
        \/ ~HasText(end_pattern, router_stdout[1])) =>
        /\ cpc = "raised AttributeError"
        /\ router_call_data = <<>>
        /\ conv_stdout = <<>>

C7_Witness ==
    /\ cpc = "raised AttributeError"
    /\ HasText(start_pattern, router_stdout[1])
    /\ ~HasText(end_pattern, router_stdout[1])

\* C9: an emitted interaction list holds exactly two interactions: the approval
\* (target the permit2 address, the approve calldata) at index 0 and the router
\* swap (target the router address, the extracted calldata) at index 1.
C9_ApprovalThenSwap ==
    conv_stdout # <<>> =>
        /\ Len(conv_stdout) = 1
        /\ Len(conv_stdout[1]) = 2
        /\ conv_stdout[1][1] = [target |-> permit2_address, callData |-> permit2_call_data,
                                value |-> <<"0">>]
        /\ conv_stdout[1][2] = [target |-> router_address, callData |-> router_call_data[1],
                                value |-> <<"0">>]

C9_Witness ==
    /\ cpc = "exited"
    /\ conv_stdout # <<>>
    /\ router_call_data = << <<"0", "x", "a", "b">> >>

====
